---- MODULE Spec2Model ----
(***************************************************************************)
(* Model of scripts/daily_sync.py: the history upserter                    *)
(* (append_history_row, the UPSERT part) and the step runner (run_step and *)
(* main).                                                                  *)
(*                                                                         *)
(* The history file data/daily/history_daily.csv is modelled by its CSV    *)
(* content: a header (sequence of column names) and a sequence of lines,   *)
(* each line a sequence of fields.  csv.DictReader turns a line into a     *)
(* dict keyed by the header, csv.DictWriter turns a dict back into a line. *)
(***************************************************************************)
EXTENDS Integers, Sequences, FiniteSets, TLC

\* ------------------------------------------------------------------ bounds
MaxRows == 3        \* most lines a modelled history file holds
MaxSteps == 2       \* most steps in a modelled step list
MaxEvents == 3      \* most rows the two event files hold together

\* ------------------------------------------------------- value universes
Dates == {"2026-01-01", "2026-01-02"}
Cols == {"date", "year", "foo"}
Vals == {"", "1"}

NoRow == [keys |-> <<>>, vals |-> <<>>]

Range(s) == {s[i] : i \in 1..Len(s)}

IsInjective(s) == \A i, j \in 1..Len(s) : s[i] = s[j] => i = j

\* dict.get(k, default)
Get(d, k, default) == IF k \in DOMAIN d THEN d[k] ELSE default

\* ------------------------------------------------------------- the file
\* history_path.exists() is FALSE: no header, no lines
AbsentFile == [exists |-> FALSE, header |-> <<>>, lines |-> <<>>]

\* a file of zero bytes: DictReader.fieldnames is None
EmptyFile == [exists |-> TRUE, header |-> <<>>, lines |-> <<>>]

\* a summary file: whether it exists, can be opened and decoded, and its rows
SummaryFile(exists, readable, rows) == [exists |-> exists, readable |-> readable, rows |-> rows, denied |-> FALSE]

\* a summary file in a directory that may not be searched: stat on its path
\* fails with EACCES, which Path.exists() does not swallow
DeniedSummary == [exists |-> TRUE, readable |-> FALSE, rows |-> <<>>, denied |-> TRUE]

NoSummary == SummaryFile(FALSE, FALSE, <<>>)

\* no summary file on disk: one candidate path for the fitness and the reading
\* summary, two for the running summary (lines 50-86)
NoMetrics == [fitness |-> <<NoSummary>>, reading |-> <<NoSummary>>, running |-> <<NoSummary, NoSummary>>]

\* csv.DictReader: one dict per line, keyed by the header
DictRow(hdr, line) == [h \in Range(hdr) |-> line[CHOOSE i \in 1..Len(hdr) : hdr[i] = h /\ \A j \in 1..Len(hdr) : hdr[j] = h => j <= i]]

\* lines 174-181: existing_header, existing_rows
ReadHeader(file) == IF file.exists THEN file.header ELSE <<>>

ReadRows(file) == IF file.exists THEN [i \in 1..Len(file.lines) |-> DictRow(file.header, file.lines[i])] ELSE <<>>

\* csv.DictWriter.writerow: the dict's values in fieldnames order
WriteLine(hdr, d) == [i \in 1..Len(hdr) |-> d[hdr[i]]]

\* a header rebuilt from the row's keys first, the remaining file columns after
UnionHeader_RowFirst(header, keys) == keys \o SelectSeq(header, LAMBDA h : h \notin Range(keys))

\* lines 183-186: existing columns in order, then the row's unseen keys
RECURSIVE UnionHeader(_, _)
UnionHeader(header, keys) ==
  IF keys = <<>> THEN header
  ELSE IF Head(keys) \in Range(header) THEN UnionHeader(header, Tail(keys))
  ELSE UnionHeader(Append(header, Head(keys)), Tail(keys))

\* {h: d.get(h, "") for h in header}
Project(header, d) == [h \in Range(header) |-> Get(d, h, "")]

\* the loop without its "extra duplicate match: drop it" branch
RECURSIVE UpsertLoop_KeepDuplicates(_, _, _, _, _)
UpsertLoop_KeepDuplicates(existing_rows, row, header, key_val, replaced) ==
  IF existing_rows = <<>> THEN <<>>
  ELSE LET r == Head(existing_rows)
           rest == Tail(existing_rows)
       IN IF Get(r, "date", "") = key_val /\ ~replaced
          THEN <<Project(header, row)>> \o UpsertLoop_KeepDuplicates(rest, row, header, key_val, TRUE)
          ELSE <<Project(header, r)>> \o UpsertLoop_KeepDuplicates(rest, row, header, key_val, replaced)

\* the loop rewriting the other rows with the new row's columns only
RECURSIVE UpsertLoop_RowColumnsOnly(_, _, _, _, _)
UpsertLoop_RowColumnsOnly(existing_rows, row, header, key_val, replaced) ==
  IF existing_rows = <<>> THEN <<>>
  ELSE LET r == Head(existing_rows)
           rest == Tail(existing_rows)
       IN IF Get(r, "date", "") = key_val
          THEN IF ~replaced
               THEN <<Project(header, row)>> \o UpsertLoop_RowColumnsOnly(rest, row, header, key_val, TRUE)
               ELSE UpsertLoop_RowColumnsOnly(rest, row, header, key_val, replaced)
          ELSE <<[h \in Range(header) |-> IF h \in DOMAIN row THEN Get(r, h, "") ELSE ""]>> \o UpsertLoop_RowColumnsOnly(rest, row, header, key_val, replaced)

\* lines 188-200: the loop over existing_rows with its replaced flag
RECURSIVE UpsertLoop(_, _, _, _, _)
UpsertLoop(existing_rows, row, header, key_val, replaced) ==
  IF existing_rows = <<>> THEN <<>>
  ELSE LET r == Head(existing_rows)
           rest == Tail(existing_rows)
       IN IF Get(r, "date", "") = key_val
          THEN IF ~replaced
               THEN <<Project(header, row)>> \o UpsertLoop(rest, row, header, key_val, TRUE)
               ELSE UpsertLoop(rest, row, header, key_val, replaced)
          ELSE <<Project(header, r)>> \o UpsertLoop(rest, row, header, key_val, replaced)

\* a plain append: every existing row kept, the new row added at the end
NewRows_AlwaysAppend(existing_rows, row, header, key_val) ==
  Append([i \in 1..Len(existing_rows) |-> Project(header, existing_rows[i])], Project(header, row))

\* delete-then-append: the rows of the date removed, the new row at the end
NewRows_DeleteThenAppend(existing_rows, row, header, key_val) ==
  LET kept == SelectSeq(existing_rows, LAMBDA r : Get(r, "date", "") # key_val)
  IN Append([i \in 1..Len(kept) |-> Project(header, kept[i])], Project(header, row))

\* lines 188-203: new_rows
NewRows(existing_rows, row, header, key_val) ==
  LET looped == UpsertLoop(existing_rows, row, header, key_val, FALSE)
      replaced == \E i \in 1..Len(existing_rows) : Get(existing_rows[i], "date", "") = key_val
  IN IF ~replaced THEN Append(looped, Project(header, row)) ELSE looped

\* the upsert keyed on the year column instead of the date column
Upsert_KeyedOnYear(file, row) ==
  LET key_val == Get(row.vals, "year", "")
      header == UnionHeader(ReadHeader(file), row.keys)
      new_rows == NewRows(ReadRows(file), row.vals, header, key_val)
  IN [exists |-> TRUE, header |-> header, lines |-> [i \in 1..Len(new_rows) |-> WriteLine(header, new_rows[i])]]

\* lines 170-211: the file append_history_row writes, for the dict row
\* (row.keys the dict's keys in insertion order, row.vals its values)
Upsert(file, row) ==
  LET key_val == Get(row.vals, "date", "")
      header == UnionHeader(ReadHeader(file), row.keys)
      new_rows == NewRows(ReadRows(file), row.vals, header, key_val)
  IN [exists |-> TRUE, header |-> header, lines |-> [i \in 1..Len(new_rows) |-> WriteLine(header, new_rows[i])]]

\* -------------------------------------------------------------- inputs
\* the key orders of a row dict: "date" is its first key (line 91)
KeySeqs == {s \in UNION {[1..n -> Cols] : n \in 1..Cardinality(Cols)} : s[1] = "date" /\ IsInjective(s)}

RowDicts == UNION {{[keys |-> ks, vals |-> v] : v \in {f \in [Range(ks) -> Dates \cup Vals] : f["date"] \in Dates /\ \A c \in Range(ks) \ {"date"} : f[c] \in Vals}} : ks \in KeySeqs}

\* history files found on disk that hold lines already: any lines, duplicate
\* dates included, under a header an earlier run wrote
FoundLines == UNION {[1..n -> {<<d, v>> : d \in Dates, v \in Vals}] : n \in 1..MaxRows}

FoundFiles == {[exists |-> TRUE, header |-> <<"date", "year">>, lines |-> ls] : ls \in FoundLines}

\* an event file that does not exist (path.exists() is FALSE)
NoFile == [exists |-> FALSE, rows |-> <<>>]

\* history ........ the content of data/daily/history_daily.csv
\* prev_history ... that file before the last upsert; last_row: the row dict
\*                  of the last upsert; clean: the file started absent or empty
\* steps .......... main's step list; idx: the loop's position in it
\* pc ............. where main is
\* run_results, failed_required: main's locals
\* summary_json, summary_md: the files written to out_dir
\* exit_status .... the status the process ended with (-1: still running)
\* today .......... main's today
\* events ......... per step run_step was called for, what the environment did
\* logs ........... the step log files of out_dir, by file name
\* upsert_attempts . how many times main called append_history_row
\* metrics ........ the domain summary files append_history_row looks for
\* in_aeg, in_tm .. the two event files shows_metrics.py reads
\* year_arg ....... its --year argument
\* shows_out ...... <<>> until shows_metrics.py has run, then its locals
\*                  all_rows, rows and filtered and the summary file it wrote
VARIABLES history, prev_history, last_row, clean, steps, idx, pc, run_results, failed_required, summary_json, summary_md, exit_status, today, events, logs, upsert_attempts, in_aeg, in_tm, year_arg, shows_out, metrics

shows_vars == <<in_aeg, in_tm, year_arg, shows_out>>

upsert_vars == <<history, prev_history, last_row, clean>>

run_vars == <<steps, idx, pc, run_results, failed_required, summary_json, summary_md, exit_status, today, events, logs, upsert_attempts, metrics>>

vars == <<history, prev_history, last_row, clean, steps, idx, pc, run_results, failed_required, summary_json, summary_md, exit_status, today, events, logs, upsert_attempts, in_aeg, in_tm, year_arg, shows_out, metrics>>

\* ------------------------------------------------ the upserter on its own
UpsertInit ==
  /\ history \in {AbsentFile, EmptyFile} \cup FoundFiles
  /\ clean = (history \in {AbsentFile, EmptyFile})
  /\ prev_history = history
  /\ last_row = NoRow
  /\ steps = <<>>
  /\ idx = 1
  /\ pc = "upserter"
  /\ run_results = <<>>
  /\ failed_required = FALSE
  /\ summary_json = <<>>
  /\ summary_md = <<>>
  /\ exit_status = -1
  /\ today = ""
  /\ events = <<>>
  /\ logs = <<>>
  /\ upsert_attempts = 0
  /\ metrics = NoMetrics
  /\ in_aeg = NoFile
  /\ in_tm = NoFile
  /\ year_arg = 2026
  /\ shows_out = <<>>

\* one call of append_history_row's upsert with the row dict row
UpsertCall(row) ==
  /\ Len(Upsert(history, row).lines) <= MaxRows
  /\ history' = Upsert(history, row)
  /\ prev_history' = history
  /\ last_row' = row
  /\ UNCHANGED clean
  /\ UNCHANGED run_vars
  /\ UNCHANGED shows_vars

UpsertNext == \E row \in RowDicts : UpsertCall(row)

UpsertSpec == UpsertInit /\ [][UpsertNext]_vars

\* ------------------------------------------------------- the step runner
\* the names of main's built-in steps, in list order (lines 296-381)
BuiltinNames == <<"sugarwod_import", "fitness_metrics", "strava_fetch", "running_metrics", "hardcover_fetch", "hardcover_metrics", "calendar_export", "calendar_metrics", "aeg_events_fetch", "ticketmaster_fetch", "shows_metrics", "spotify_daily10_playlist", "spotify_metrics", "spotify_daily10_playlist">>

\* the positions of the built-in list the modelled step lists draw from: the
\* first step, and the two steps named spotify_daily10_playlist
StepPositions == {1, 12, 14}

\* up to MaxSteps of these positions, in list order
PositionLists == {ps \in UNION {[1..n -> StepPositions] : n \in 1..MaxSteps} : \A i, j \in 1..Len(ps) : i < j => ps[i] < ps[j]}

\* class Step (lines 214-219): name, required, and whether run_if_exists is
\* a path (TRUE) or None (FALSE); cmd is not modelled
StepLists == UNION {{[i \in 1..Len(ps) |-> [name |-> BuiltinNames[ps[i]], required |-> f[i][1], run_if_exists |-> f[i][2]]] : f \in [1..Len(ps) -> BOOLEAN \X BOOLEAN]} : ps \in PositionLists}

\* return codes a finished process is modelled with
ReturnCodes == {0, 1}

\* line 224: the result of a step whose prerequisite file is absent
SkippedResult(step) == [name |-> step.name, status |-> "skipped", reason |-> "missing"]

\* lines 247-259: the result of a step whose process ended with returncode
ProcResult(step, returncode) ==
  LET result == [name |-> step.name, status |-> IF returncode = 0 THEN "ok" ELSE "failed", returncode |-> returncode, log_file |-> step.name]
  IN IF returncode # 0 /\ step.required
     THEN [k \in DOMAIN result \cup {"required"} |-> IF k = "required" THEN TRUE ELSE result[k]]
     ELSE result

\* lines 267-276: the result the except branch returns
ExceptResult(step) == [name |-> step.name, status |-> "failed", returncode |-> "None", error |-> "Exception", log_file |-> step.name, required |-> step.required]

\* lines 240-245 and 263-265: open(log_path, "w") and the writes
WriteLog(files, step, body) == [n \in DOMAIN files \cup {step.name} |-> IF n = step.name THEN [step |-> idx, body |-> body] ELSE files[n]]

\* line 392: res.get("status") == "failed" and res.get("required")
HaltsLoop(res) == Get(res, "status", "") = "failed" /\ Get(res, "required", FALSE)

\* lines 391-394 and the loop's next iteration: main records the result
\* run_step returned, then breaks or moves to the next step
Record(res) ==
  /\ run_results' = Append(run_results, res)
  /\ IF HaltsLoop(res)
     THEN /\ failed_required' = TRUE
          /\ pc' = "summary"
          /\ UNCHANGED idx
     ELSE /\ UNCHANGED failed_required
          /\ idx' = idx + 1
          /\ pc' = IF idx + 1 > Len(steps) THEN "summary" ELSE "loop"

\* lines 400-415: the line summary.md gets for one result
MdLine(r) ==
  LET status == Get(r, "status", "")
  IN IF status = "ok" THEN [mark |-> "done_mark", name |-> r.name]
     ELSE IF status = "skipped" THEN [mark |-> "skip_mark", name |-> r.name]
     ELSE [mark |-> "cross_mark", name |-> r.name]

YearStr == "2026"

\* dict.get(k) of a key the dict lacks
PyNone == "<None>"

\* a or b: a when it is neither None nor the empty string
OrElse(a, b) == IF a # PyNone /\ a # "" THEN a ELSE b

\* a chain that tries the fallback column first
Alias_FallbackFirst(summary, primary, fallback) ==
  OrElse(Get(summary, fallback, PyNone), OrElse(Get(summary, primary, PyNone), ""))

\* lines 95-99, 108-127, 135-144, 148-152:
\* summary.get(primary) or summary.get(fallback) or ""
Alias(summary, primary, fallback) ==
  OrElse(Get(summary, primary, PyNone), OrElse(Get(summary, fallback, PyNone), ""))

\* the keys of the row dict that are modelled, in the order of lines 90-168
HistoryKeys == <<"date", "year", "classes_attended_ytd", "rx_rate", "nonfiction_read_ytd", "fiction_read_ytd", "running_miles_ytd", "running_goal_miles", "running_progress_pct">>

\* lines 90-168: the row dict built from the domain summaries
HistoryRow(day, summaries) ==
  [keys |-> HistoryKeys,
   vals |-> [date |-> day,
             year |-> YearStr,
             classes_attended_ytd |-> Alias(summaries.fitness, "classes_attended_2026", "classes_attended_ytd"),
             rx_rate |-> Get(summaries.fitness, "rx_rate", ""),
             nonfiction_read_ytd |-> Alias(summaries.reading, "nonfiction_read_ytd", "nonfiction_books_read"),
             fiction_read_ytd |-> Alias(summaries.reading, "fiction_read_ytd", "fiction_books_read"),
             running_miles_ytd |-> Alias(summaries.running, "running_miles_ytd", "miles_ytd"),
             running_goal_miles |-> Alias(summaries.running, "running_goal_miles", "miles_goal"),
             running_progress_pct |-> Get(summaries.running, "running_progress_pct", "")]]

\* lines 16-30: read_single_row_csv
ReadSingleRowCsv(file) ==
  IF ~file.exists THEN <<>>
  ELSE IF ~file.readable THEN <<>>
  ELSE IF file.rows = <<>> THEN <<>>
  ELSE file.rows[1]

\* lines 33-37: first_existing raises when p.exists() raises on a candidate
\* path it reaches
FirstExistingRaises(paths) == \E i \in 1..Len(paths) : paths[i].denied /\ \A j \in 1..(i - 1) : ~paths[j].exists

\* lines 50-86: one of the first_existing calls of append_history_row raises
ReadSummariesRaises(files) == FirstExistingRaises(files.fitness) \/ FirstExistingRaises(files.reading) \/ FirstExistingRaises(files.running)

\* lines 33-37 and 56, 62, 77: first_existing over the candidate paths, then
\* read_single_row_csv, or {} when no candidate exists
ReadFirstExisting(paths) ==
  LET existing == SelectSeq(paths, LAMBDA f : f.exists)
  IN IF existing = <<>> THEN <<>> ELSE ReadSingleRowCsv(existing[1])

\* lines 50-77: the summaries append_history_row reads
ReadSummaries(files) ==
  [fitness |-> ReadFirstExisting(files.fitness),
   reading |-> ReadFirstExisting(files.reading),
   running |-> ReadFirstExisting(files.running)]

\* running_metrics.py, compute_metrics lines 114-127 and to_csv line 150:
\* the row of data/running/metrics/running_summary_<year>.csv
RunningSummary(miles_total) ==
  [year |-> YearStr, runs_count |-> "3", miles_total |-> miles_total, miles_goal |-> "350.0", miles_progress_pct |-> "3.57", weeks_elapsed |-> "2", miles_per_week |-> "6.25", required_miles_per_week |-> "6.73", long_run_miles |-> "5.0", avg_pace_min_per_mile |-> "9.5", source_file |-> "activities.json", run_types_counted |-> "Run,TrailRun,VirtualRun"]

\* hardcover_metrics.py, main lines 69-92: the row of
\* data/hardcover/metrics/reading_summary_2026.csv
ReadingSummary(fiction, nonfiction) ==
  [year |-> YearStr, fiction_read |-> fiction, fiction_goal |-> "12", fiction_progress_pct |-> "8.33", nonfiction_read |-> nonfiction, nonfiction_goal |-> "6", nonfiction_progress_pct |-> "16.67", unknown_classification |-> "0", total_read |-> "3"]

\* what read_single_row_csv may return for the fitness summary (lines 16-30)
FitnessSummaries == {<<>>} \cup {[rx_rate |-> v] : v \in Vals}

\* history files a run of main may find
SyncFiles == {AbsentFile, [exists |-> TRUE, header |-> <<"date", "year">>, lines |-> <<<<"2026-01-01", "1">>>>]}

Init ==
  /\ history \in SyncFiles
  /\ clean = (history = AbsentFile)
  /\ prev_history = history
  /\ last_row = NoRow
  /\ steps \in StepLists
  /\ idx = 1
  /\ pc = "loop"
  /\ run_results = <<>>
  /\ failed_required = FALSE
  /\ summary_json = <<>>
  /\ summary_md = <<>>
  /\ exit_status = -1
  /\ today \in Dates
  /\ events = <<>>
  /\ logs = <<>>
  /\ upsert_attempts = 0
  /\ metrics = NoMetrics
  /\ in_aeg = NoFile
  /\ in_tm = NoFile
  /\ year_arg = 2026
  /\ shows_out = <<>>

Event(absent, rc, raised) == [absent |-> absent, rc |-> rc, raised |-> raised]

\* lines 223-224: run_if_exists is set and the file is absent
StepSkipped ==
  /\ pc = "loop"
  /\ steps[idx].run_if_exists
  /\ events' = Append(events, Event(TRUE, -1, FALSE))
  /\ Record(SkippedResult(steps[idx]))
  /\ UNCHANGED <<upsert_vars, steps, summary_json, summary_md, exit_status, today, logs>>
  /\ UNCHANGED <<upsert_attempts, metrics>>
  /\ UNCHANGED shows_vars

\* a launch that does not wait for the process: the loop goes on to the next
\* step while this one runs
StepLaunch_Background ==
  /\ pc = "loop"
  /\ idx < Len(steps)
  /\ idx' = idx + 1
  /\ events' = Append(events, Event(FALSE, -1, FALSE))
  /\ UNCHANGED <<upsert_vars, steps, pc, run_results, failed_required, summary_json, summary_md, exit_status, today, logs>>
  /\ UNCHANGED <<upsert_attempts, metrics>>
  /\ UNCHANGED shows_vars

\* lines 223-237: no prerequisite is missing, subprocess.run starts the
\* process and blocks on it
StepLaunch ==
  /\ pc = "loop"
  /\ pc' = "proc"
  /\ events' = Append(events, Event(FALSE, -1, FALSE))
  /\ UNCHANGED <<upsert_vars, steps, idx, run_results, failed_required, summary_json, summary_md, exit_status, today, logs>>
  /\ UNCHANGED <<upsert_attempts, metrics>>
  /\ UNCHANGED shows_vars

\* lines 230 and 261: subprocess.run raises (no such command, ...)
LaunchRaises ==
  /\ pc = "loop"
  /\ pc' = "except"
  /\ events' = Append(events, Event(FALSE, -1, TRUE))
  /\ UNCHANGED <<upsert_vars, steps, idx, run_results, failed_required, summary_json, summary_md, exit_status, today, logs>>
  /\ UNCHANGED <<upsert_attempts, metrics>>
  /\ UNCHANGED shows_vars

\* lines 238-259: the process ends, its output is logged, the result returned
ProcExits(returncode) ==
  /\ pc = "proc"
  /\ events' = [events EXCEPT ![idx].rc = returncode]
  /\ logs' = WriteLog(logs, steps[idx], "output")
  /\ Record(ProcResult(steps[idx], returncode))
  /\ UNCHANGED <<upsert_vars, steps, summary_json, summary_md, exit_status, today>>
  /\ UNCHANGED <<upsert_attempts, metrics>>
  /\ UNCHANGED shows_vars

\* lines 240 and 261: the process ends and opening the log file raises
LogWriteRaises(returncode) ==
  /\ pc = "proc"
  /\ pc' = "except"
  /\ events' = [events EXCEPT ![idx].rc = returncode, ![idx].raised = TRUE]
  /\ UNCHANGED <<upsert_vars, steps, idx, run_results, failed_required, summary_json, summary_md, exit_status, today, logs>>
  /\ UNCHANGED <<upsert_attempts, metrics>>
  /\ UNCHANGED shows_vars

\* lines 261-276: the except branch logs the exception and returns failed
HandlerReturns ==
  /\ pc = "except"
  /\ logs' = WriteLog(logs, steps[idx], "exception")
  /\ Record(ExceptResult(steps[idx]))
  /\ UNCHANGED <<upsert_vars, steps, summary_json, summary_md, exit_status, today, events>>
  /\ UNCHANGED <<upsert_attempts, metrics>>
  /\ UNCHANGED shows_vars

\* line 263: open(log_path, "w") raises inside the except branch; nothing
\* catches it in run_step or in main (line 390), the interpreter ends with
\* a traceback and status 1
HandlerRaises ==
  /\ pc = "except"
  /\ pc' = "crashed"
  /\ exit_status' = 1
  /\ UNCHANGED <<upsert_vars, steps, idx, run_results, failed_required, summary_json, summary_md, today, events, logs>>
  /\ UNCHANGED <<upsert_attempts, metrics>>
  /\ UNCHANGED shows_vars

\* lines 396-418: summary.json and summary.md
WriteSummary ==
  /\ pc = "summary"
  /\ summary_json' = <<[date |-> today, year |-> YearStr, steps |-> run_results]>>
  /\ summary_md' = <<[i \in 1..Len(run_results) |-> MdLine(run_results[i])]>>
  /\ pc' = "upsert"
  /\ UNCHANGED <<upsert_vars, steps, idx, run_results, failed_required, exit_status, today, events, logs>>
  /\ UNCHANGED <<upsert_attempts, metrics>>
  /\ UNCHANGED shows_vars

\* lines 421-423: append_history_row returns
UpsertHistory(fitness_summary) ==
  /\ pc = "upsert"
  /\ history' = Upsert(history, HistoryRow(today, [fitness |-> fitness_summary, reading |-> <<>>, running |-> <<>>]))
  /\ prev_history' = history
  /\ last_row' = HistoryRow(today, [fitness |-> fitness_summary, reading |-> <<>>, running |-> <<>>])
  /\ pc' = "return"
  /\ UNCHANGED <<clean, steps, idx, run_results, failed_required, summary_json, summary_md, exit_status, today, events, logs>>
  /\ upsert_attempts' = upsert_attempts + 1
  /\ UNCHANGED metrics
  /\ UNCHANGED shows_vars

\* lines 424-425: append_history_row raises before it writes; main warns
UpsertRaises ==
  /\ pc = "upsert"
  /\ pc' = "return"
  /\ UNCHANGED <<upsert_vars, steps, idx, run_results, failed_required, summary_json, summary_md, exit_status, today, events, logs>>
  /\ upsert_attempts' = upsert_attempts + 1
  /\ UNCHANGED metrics
  /\ UNCHANGED shows_vars

\* lines 430 and 434: main returns, SystemExit carries the status
Return ==
  /\ pc = "return"
  /\ exit_status' = IF failed_required THEN 1 ELSE 0
  /\ pc' = "done"
  /\ UNCHANGED <<upsert_vars, steps, idx, run_results, failed_required, summary_json, summary_md, today, events, logs>>
  /\ UNCHANGED <<upsert_attempts, metrics>>
  /\ UNCHANGED shows_vars

Next ==
  \/ StepSkipped
  \/ StepLaunch
  \/ LaunchRaises
  \/ \E returncode \in ReturnCodes : ProcExits(returncode)
  \/ \E returncode \in ReturnCodes : LogWriteRaises(returncode)
  \/ HandlerReturns
  \/ HandlerRaises
  \/ WriteSummary
  \/ \E fitness_summary \in FitnessSummaries : UpsertHistory(fitness_summary)
  \/ UpsertRaises
  \/ Return

Spec == Init /\ [][Next]_vars

\* ------------------------------------- append_history_row on its own
\* a column a summary row does not have
Absent == "<absent>"

\* the dict of a choice of values, without the columns chosen absent
DictOf(choice) == [k \in {c \in DOMAIN choice : choice[c] # Absent} |-> choice[k]]

\* rows a fitness summary may hold
FitnessRows == {DictOf(ch) : ch \in [classes_attended_2026 : {Absent, "", "0", "7"}, classes_attended_ytd : {Absent, "", "5"}, rx_rate : {Absent, "1"}]}

\* the fitness summary file: absent, in a directory that may not be searched,
\* without rows, unreadable, or with a row
FitnessFiles ==
  {NoSummary, DeniedSummary, SummaryFile(TRUE, TRUE, <<>>), SummaryFile(TRUE, FALSE, <<[classes_attended_2026 |-> "7", rx_rate |-> "1"]>>)}
  \cup {SummaryFile(TRUE, TRUE, <<r>>) : r \in FitnessRows}

\* rows a reading summary may hold: the row hardcover_metrics.py writes, and
\* rows with the columns append_history_row reads
ReadingRows ==
  {ReadingSummary("2", "1")}
  \cup {DictOf(ch) : ch \in [fiction_read_ytd : {Absent, "", "2"}, fiction_books_read : {Absent, "4"}, nonfiction_books_read : {Absent, "3"}]}

ReadingFiles ==
  {NoSummary, SummaryFile(TRUE, FALSE, <<ReadingSummary("2", "1")>>)}
  \cup {SummaryFile(TRUE, TRUE, <<r>>) : r \in ReadingRows}

\* a running summary under data/strava/metrics or data/running/metrics: the
\* row running_metrics.py writes, or a row with columns append_history_row reads
RunningFiles ==
  {NoSummary,
   SummaryFile(TRUE, TRUE, <<>>),
   SummaryFile(TRUE, TRUE, <<RunningSummary("12.5")>>),
   SummaryFile(TRUE, TRUE, <<[running_miles_ytd |-> "9", miles_ytd |-> "8", miles_goal |-> "350", running_progress_pct |-> "2.6"]>>)}

\* the summary files a call of append_history_row may find
MetricsFiles == {[fitness |-> <<f>>, reading |-> <<r>>, running |-> <<s, t>>] : f \in FitnessFiles, r \in ReadingFiles, s \in RunningFiles, t \in RunningFiles}

\* history files a call may find: none, or one with a line for 2026-01-01
RowHistories == {AbsentFile, [exists |-> TRUE, header |-> <<"date", "year", "rx_rate">>, lines |-> <<<<"2026-01-01", "2026", "1">>>>]}

RowInit ==
  /\ history \in RowHistories
  /\ clean = (history = AbsentFile)
  /\ prev_history = history
  /\ last_row = NoRow
  /\ steps = <<>>
  /\ idx = 1
  /\ pc = "row"
  /\ run_results = <<>>
  /\ failed_required = FALSE
  /\ summary_json = <<>>
  /\ summary_md = <<>>
  /\ exit_status = -1
  /\ today \in Dates
  /\ events = <<>>
  /\ logs = <<>>
  /\ upsert_attempts = 0
  /\ metrics \in MetricsFiles
  /\ in_aeg = NoFile
  /\ in_tm = NoFile
  /\ year_arg = 2026
  /\ shows_out = <<>>

\* lines 40-211: append_history_row reads the summaries, builds the row and
\* upserts it
AppendHistoryRow ==
  /\ pc = "row"
  /\ ~ReadSummariesRaises(metrics)
  /\ history' = Upsert(history, HistoryRow(today, ReadSummaries(metrics)))
  /\ prev_history' = history
  /\ last_row' = HistoryRow(today, ReadSummaries(metrics))
  /\ pc' = "row_done"
  /\ upsert_attempts' = upsert_attempts + 1
  /\ UNCHANGED <<clean, steps, idx, run_results, failed_required, summary_json, summary_md, exit_status, today, events, logs, metrics>>
  /\ UNCHANGED shows_vars

\* lines 50-86: a first_existing call raises, outside every try of
\* append_history_row: the call ends with the exception, nothing is written
AppendHistoryRowRaises ==
  /\ pc = "row"
  /\ ReadSummariesRaises(metrics)
  /\ pc' = "row_raised"
  /\ upsert_attempts' = upsert_attempts + 1
  /\ UNCHANGED <<upsert_vars, steps, idx, run_results, failed_required, summary_json, summary_md, exit_status, today, events, logs, metrics>>
  /\ UNCHANGED shows_vars

RowNext == AppendHistoryRow \/ AppendHistoryRowRaises

RowSpec == RowInit /\ [][RowNext]_vars

\* ------------------------------------------- scripts/shows_metrics.py
\* Text is a sequence of one-character strings.  A start_datetime text is
\* modelled by its shape: form "empty" (""), "text" (no date, as "TBD"),
\* "date" (YYYY-MM-DD), "slash" (YYYY/MM/DD), "naive" (YYYY-MM-DDTHH:00:00),
\* "offset" (the same with a +HH:00 or -HH:00 suffix, off hours) and "z" (the
\* same with a Z suffix).  Two starts are the same text iff they are the same
\* record.  Times are whole hours between 2025-12-01 and 2026-01-31.

\* the UTC offset of America/Denver in December and January (MST), in hours
DenverOffset == -7

StartText(form, y, mo, d, h, off) == [form |-> form, y |-> y, mo |-> mo, d |-> d, h |-> h, off |-> off]

\* the text ""
EmptyStart == StartText("empty", 0, 0, 0, 0, 0)

\* row.get("start_datetime", "")
StartOf(row) == Get(row, "start_datetime", EmptyStart)

NoDt == [kind |-> "none", y |-> 0, mo |-> 0, d |-> 0, h |-> 0, off |-> 0]

\* a datetime object: naive, or aware with its utcoffset in hours
Dt(kind, y, mo, d, h, off) == [kind |-> kind, y |-> y, mo |-> mo, d |-> d, h |-> h, off |-> off]

\* _parse_dt that takes an unparseable start for the date 2026-01-01
ParseDt_DefaultsToDate(value) ==
  IF value.form \in {"empty", "text"} THEN Dt("naive", 2026, 1, 1, 0, 0)
  ELSE IF value.form = "z" THEN Dt("aware", value.y, value.mo, value.d, value.h, 0)
  ELSE IF value.form = "offset" THEN Dt("aware", value.y, value.mo, value.d, value.h, value.off)
  ELSE IF value.form = "naive" THEN Dt("naive", value.y, value.mo, value.d, value.h, 0)
  ELSE Dt("naive", value.y, value.mo, value.d, 0, 0)

\* lines 26-58: _parse_dt
ParseDt(value) ==
  IF value.form = "empty" THEN NoDt
  ELSE IF value.form = "z" THEN Dt("aware", value.y, value.mo, value.d, value.h, 0)
  ELSE IF value.form = "offset" THEN Dt("aware", value.y, value.mo, value.d, value.h, value.off)
  ELSE IF value.form = "naive" THEN Dt("naive", value.y, value.mo, value.d, value.h, 0)
  ELSE IF value.form \in {"date", "slash"} THEN Dt("naive", value.y, value.mo, value.d, 0, 0)
  ELSE NoDt

\* the hour number of a civil time, counted from 2026-01-01T00:00
HourNo(y, mo, d, h) == (IF y = 2025 THEN d - 32 ELSE d - 1) * 24 + h

\* the civil time of an hour number
CivilOf(n) ==
  LET day == n \div 24
  IN [y |-> IF day < 0 THEN 2025 ELSE 2026, mo |-> IF day < 0 THEN 12 ELSE 1, d |-> IF day < 0 THEN day + 32 ELSE day + 1, h |-> n % 24]

\* _as_aware_denver that stamps the zone on an aware datetime without converting
AsAwareDenver_NoConversion(dt) == Dt("aware", dt.y, dt.mo, dt.d, dt.h, DenverOffset)

\* lines 61-69: _as_aware_denver
AsAwareDenver(dt) ==
  IF dt.kind = "naive" THEN Dt("aware", dt.y, dt.mo, dt.d, dt.h, DenverOffset)
  ELSE LET c == CivilOf(HourNo(dt.y, dt.mo, dt.d, dt.h) - dt.off + DenverOffset)
       IN Dt("aware", c.y, c.mo, c.d, c.h, DenverOffset)

\* _utc_ts that reads the Denver wall clock as if it were UTC
UtcTs_WallClock(dt) ==
  LET aware_denver == AsAwareDenver(dt)
  IN HourNo(aware_denver.y, aware_denver.mo, aware_denver.d, aware_denver.h)

\* lines 72-77: _utc_ts, in hours since 2026-01-01T00:00 UTC
UtcTs(dt) ==
  LET aware_denver == AsAwareDenver(dt)
  IN HourNo(aware_denver.y, aware_denver.mo, aware_denver.d, aware_denver.h) - aware_denver.off

\* str.lower on one character
LowerChar(c) == IF c = "A" THEN "a" ELSE IF c = "V" THEN "v" ELSE c

\* str.strip
RECURSIVE LStrip(_)
LStrip(s) == IF s # <<>> /\ Head(s) = " " THEN LStrip(Tail(s)) ELSE s

RECURSIVE RStrip(_)
RStrip(s) == IF s # <<>> /\ s[Len(s)] = " " THEN RStrip(SubSeq(s, 1, Len(s) - 1)) ELSE s

Strip(s) == RStrip(LStrip(s))

\* " ".join(words): single spaces between the words of s
RECURSIVE JoinWords(_, _)
JoinWords(s, pending) ==
  IF s = <<>> THEN <<>>
  ELSE IF Head(s) = " " THEN JoinWords(Tail(s), TRUE)
  ELSE (IF pending THEN <<" ">> ELSE <<>>) \o <<Head(s)>> \o JoinWords(Tail(s), FALSE)

\* lines 91-92: _norm
Norm(s) == JoinWords(LStrip([i \in 1..Len(s) |-> LowerChar(s[i])]), FALSE)

\* the columns of an event file that hold text
TextCols == {"title", "venue_name", "event_url"}

\* _read_csv that returns one row without columns for an absent file
ReadCsv_AbsentAsBlankRow(file) ==
  IF ~file.exists THEN <<<<>>>>
  ELSE [i \in 1..Len(file.rows) |-> [k \in DOMAIN file.rows[i] |-> IF k \in TextCols THEN Strip(file.rows[i][k]) ELSE file.rows[i][k]]]

\* lines 80-88: _read_csv; every value stripped (a start shape and a source
\* tag are modelled without outer blanks)
ReadCsv(file) ==
  IF ~file.exists THEN <<>>
  ELSE [i \in 1..Len(file.rows) |-> [k \in DOMAIN file.rows[i] |-> IF k \in TextCols THEN Strip(file.rows[i][k]) ELSE file.rows[i][k]]]

\* _dedupe_key that ignores event_url
DedupeKey_IgnoresUrl(row) ==
  <<"sig:", Norm(Get(row, "title", <<>>)) \o <<"|">> \o Norm(Get(row, "venue_name", <<>>)) \o <<"|">>, StartOf(row)>>

\* _dedupe_key whose fallback hashes the title and the venue only
DedupeKey_NoStart(row) ==
  LET url == Strip(Get(row, "event_url", <<>>))
  IN IF url # <<>> THEN <<"url:", url>>
     ELSE <<"sig:", Norm(Get(row, "title", <<>>)) \o <<"|">> \o Norm(Get(row, "venue_name", <<>>)) \o <<"|">>, EmptyStart>>

\* lines 95-108: _dedupe_key; the 16 hex digits of the SHA-1 are modelled by
\* the hashed text itself (title|venue| and the start), the prefix kept apart
DedupeKey(row) ==
  LET url == Strip(Get(row, "event_url", <<>>))
  IN IF url # <<>> THEN <<"url:", url>>
     ELSE <<"sig:", Norm(Get(row, "title", <<>>)) \o <<"|">> \o Norm(Get(row, "venue_name", <<>>)) \o <<"|">>, StartOf(row)>>

\* a de-dupe that assigns dedup[k] = row for every row: a key keeps its
\* first position and gets its last row
RECURSIVE DedupeFrom_Overwrite(_, _)
DedupeFrom_Overwrite(rows, seen) ==
  IF rows = <<>> THEN <<>>
  ELSE LET k == DedupeKey(Head(rows))
           last == CHOOSE j \in 1..Len(rows) : DedupeKey(rows[j]) = k /\ \A i \in (j + 1)..Len(rows) : DedupeKey(rows[i]) # k
       IN IF k \in seen THEN DedupeFrom_Overwrite(Tail(rows), seen)
          ELSE <<rows[last]>> \o DedupeFrom_Overwrite(Tail(rows), seen \cup {k})

\* lines 121-126: the dict dedup filled in row order, then list(dedup.values())
RECURSIVE DedupeFrom(_, _)
DedupeFrom(rows, seen) ==
  IF rows = <<>> THEN <<>>
  ELSE LET k == DedupeKey(Head(rows))
       IN IF k \in seen THEN DedupeFrom(Tail(rows), seen)
          ELSE <<Head(rows)>> \o DedupeFrom(Tail(rows), seen \cup {k})

\* a de-dupe that lists the kept rows last-inserted first
Dedupe_NewestFirst(rows) ==
  LET kept == DedupeFrom(rows, {})
  IN [i \in 1..Len(kept) |-> kept[Len(kept) + 1 - i]]

\* lines 121-126: the de-duped rows of main
Dedupe(rows) == DedupeFrom(rows, {})

\* a year filter on the year written in the start text
InYear_TextYear(row, year) == ParseDt(StartOf(row)).kind # "none" /\ ParseDt(StartOf(row)).y = year

\* lines 131-137: the row has a start that parses and falls in the year
InYear(row, year) ==
  LET dt_raw == ParseDt(StartOf(row))
  IN dt_raw.kind # "none" /\ AsAwareDenver(dt_raw).y = year

\* line 139: the tuple main keeps for a row
FilteredEntry(row) ==
  LET dt_raw == ParseDt(StartOf(row))
  IN [ts |-> UtcTs(dt_raw), dt_denver |-> AsAwareDenver(dt_raw), row |-> row]

\* lines 129-139: filtered, before the sort
RECURSIVE FilterYear(_, _)
FilterYear(rows, year) ==
  IF rows = <<>> THEN <<>>
  ELSE IF InYear(Head(rows), year) THEN <<FilteredEntry(Head(rows))>> \o FilterYear(Tail(rows), year)
  ELSE FilterYear(Tail(rows), year)

\* an insertion that puts an entry before the entries of equal ts
RECURSIVE InsertByTs_BeforeEqual(_, _)
InsertByTs_BeforeEqual(sorted, e) ==
  IF sorted = <<>> THEN <<e>>
  ELSE IF e.ts <= Head(sorted).ts THEN <<e>> \o sorted
  ELSE <<Head(sorted)>> \o InsertByTs_BeforeEqual(Tail(sorted), e)

\* list.sort is stable: an entry goes after the entries of smaller or equal ts
RECURSIVE InsertByTs(_, _)
InsertByTs(sorted, e) ==
  IF sorted = <<>> THEN <<e>>
  ELSE IF e.ts < Head(sorted).ts THEN <<e>> \o sorted
  ELSE <<Head(sorted)>> \o InsertByTs(Tail(sorted), e)

\* line 141: filtered.sort(key=lambda x: x[0])
RECURSIVE SortByTs(_)
SortByTs(entries) == IF entries = <<>> THEN <<>> ELSE InsertByTs(SortByTs(SubSeq(entries, 1, Len(entries) - 1)), entries[Len(entries)])

\* sorted() on source tags: "aeg" before "ticketmaster"
SortedTags(tags) == SelectSeq(<<"aeg", "ticketmaster">>, LAMBDA t : t \in tags)

\* line 161 reading the rows of the two files instead of the de-duped rows
SourcesPresent_AllInput(all_rows, rows) == SortedTags({Get(all_rows[i], "source", "") : i \in 1..Len(all_rows)} \ {""})

\* line 161: sources_present, from the variable rows (line 126 rebound it to
\* the de-duped rows; all_rows is what line 118 had put in it)
SourcesPresent(all_rows, rows) == SortedTags({Get(rows[i], "source", "") : i \in 1..Len(rows)} \ {""})

\* a venue count over every de-duped row, not only the rows of the year
UniqueVenues_AllRows(rows, filtered) == {Strip(Get(rows[i], "venue_name", <<>>)) : i \in 1..Len(rows)} \ {<<>>}

\* line 159: unique_venues
UniqueVenues(rows, filtered) == {Strip(Get(filtered[i].row, "venue_name", <<>>)) : i \in 1..Len(filtered)} \ {<<>>}

\* datetime.date().isoformat()
IsoDate(dt) == <<dt.y, dt.mo, dt.d>>

\* datetime.isoformat() of an aware datetime
IsoDateTime(dt) == <<dt.y, dt.mo, dt.d, dt.h, dt.off>>

\* lines 143-176: summary, from main's locals
Summary(rows_aeg, rows_tm, all_rows, rows, filtered, year) ==
  LET has_next == filtered # <<>>
  IN [year |-> year,
      denver_upcoming_show_count |-> Len(filtered),
      next_show_date |-> IF has_next THEN IsoDate(filtered[1].dt_denver) ELSE <<>>,
      next_show_datetime |-> IF has_next THEN IsoDateTime(filtered[1].dt_denver) ELSE <<>>,
      next_show_title |-> IF has_next THEN Get(filtered[1].row, "title", <<>>) ELSE <<>>,
      next_show_venue |-> IF has_next THEN Get(filtered[1].row, "venue_name", <<>>) ELSE <<>>,
      next_show_url |-> IF has_next THEN Get(filtered[1].row, "event_url", <<>>) ELSE <<>>,
      unique_venues_count |-> Cardinality(UniqueVenues(rows, filtered)),
      sources_present |-> SourcesPresent(all_rows, rows),
      aeg_rows |-> Len(rows_aeg),
      ticketmaster_rows |-> Len(rows_tm),
      combined_deduped_rows |-> Len(rows)]

\* lines 116-182: main's locals when it returns: all_rows (what line 118 put
\* in rows), rows (line 126), filtered (line 141) and the summary it wrote
ShowsRun(aeg, tm, year) ==
  LET rows_aeg == ReadCsv(aeg)
      rows_tm == ReadCsv(tm)
      all_rows == rows_aeg \o rows_tm
      rows == Dedupe(all_rows)
      filtered == SortByTs(FilterYear(rows, year))
  IN [all_rows |-> all_rows, rows |-> rows, filtered |-> filtered, summary |-> Summary(rows_aeg, rows_tm, all_rows, rows, filtered, year)]

\* ------------------------------------------------ inputs of shows_metrics
Urls == {<<>>, <<"u">>}
Titles == {<<"A">>}
Venues == {<<>>, <<"v">>}

\* starts as the AEG fetcher writes them, and an empty one
AegStarts == {EmptyStart, StartText("offset", 2026, 1, 8, 20, -7), StartText("naive", 2026, 1, 1, 3, 0)}

\* starts as the Ticketmaster fetcher writes them, and one that is no date
TmStarts == {StartText("text", 0, 0, 0, 0, 0), StartText("z", 2026, 1, 1, 3, 0), StartText("z", 2026, 1, 9, 3, 0)}

\* the rows of an event file: row i carries the event_id <<tag, i>>
EventFiles(tag, starts, n) ==
  {[exists |-> TRUE, rows |-> [i \in 1..n |-> [event_id |-> <<tag, i>>, source |-> tag, title |-> f[i][1], venue_name |-> f[i][2], event_url |-> f[i][3], start_datetime |-> f[i][4]]]] : f \in [1..n -> Titles \X Venues \X Urls \X starts]}

Years == {2026}

ShowsInit ==
  /\ \E na, nt \in 0..MaxEvents :
       /\ na + nt <= MaxEvents
       /\ in_aeg \in EventFiles("aeg", AegStarts, na) \cup (IF na = 0 THEN {NoFile} ELSE {})
       /\ in_tm \in EventFiles("ticketmaster", TmStarts, nt) \cup (IF nt = 0 THEN {NoFile} ELSE {})
  /\ year_arg \in Years
  /\ shows_out = <<>>
  /\ upsert_attempts = 0
  /\ metrics = NoMetrics
  /\ history = AbsentFile
  /\ clean = TRUE
  /\ prev_history = history
  /\ last_row = NoRow
  /\ steps = <<>>
  /\ idx = 1
  /\ pc = "shows"
  /\ run_results = <<>>
  /\ failed_required = FALSE
  /\ summary_json = <<>>
  /\ summary_md = <<>>
  /\ exit_status = -1
  /\ today = ""
  /\ events = <<>>
  /\ logs = <<>>

\* lines 111-185: main of shows_metrics.py writes shows_summary_<year>.csv
ShowsMain ==
  /\ shows_out = <<>>
  /\ shows_out' = <<ShowsRun(in_aeg, in_tm, year_arg)>>
  /\ UNCHANGED <<in_aeg, in_tm, year_arg>>
  /\ UNCHANGED <<upsert_vars, run_vars>>

ShowsNext == ShowsMain

ShowsSpec == ShowsInit /\ [][ShowsNext]_vars

\* ------------------------------------- shows_metrics on rows without url
\* titles and venue names with capitals, runs of blanks and the character |
KeyTitles == {<<>>, <<"A">>, <<"a">>, <<"a", " ", "b">>, <<"A", " ", " ", "b">>, <<"a", "|", "b">>}
KeyVenues == {<<>>, <<"c">>, <<"b", "|", "c">>, <<"V">>, <<" ", "v">>}

\* an empty start and two texts for one instant
KeyStarts == {EmptyStart, StartText("offset", 2026, 1, 8, 20, -7), StartText("z", 2026, 1, 9, 3, 0)}

\* AEG files of two rows that have no event_url
KeyFiles ==
  {[exists |-> TRUE, rows |-> [i \in 1..2 |-> [event_id |-> <<"aeg", i>>, source |-> "aeg", title |-> f[i][1], venue_name |-> f[i][2], event_url |-> <<>>, start_datetime |-> f[i][3]]]] : f \in [1..2 -> KeyTitles \X KeyVenues \X KeyStarts]}

KeyInit ==
  /\ in_aeg \in KeyFiles
  /\ in_tm = NoFile
  /\ year_arg \in Years
  /\ shows_out = <<>>
  /\ upsert_attempts = 0
  /\ metrics = NoMetrics
  /\ history = AbsentFile
  /\ clean = TRUE
  /\ prev_history = history
  /\ last_row = NoRow
  /\ steps = <<>>
  /\ idx = 1
  /\ pc = "shows"
  /\ run_results = <<>>
  /\ failed_required = FALSE
  /\ summary_json = <<>>
  /\ summary_md = <<>>
  /\ exit_status = -1
  /\ today = ""
  /\ events = <<>>
  /\ logs = <<>>

KeySpec == KeyInit /\ [][ShowsNext]_vars

\* ------------------------------------------------- reading a file's dates
\* r.get("date", "") of the i-th line of a file
DateAt(file, i) == Get(ReadRows(file)[i], "date", "")

\* how many lines of a file carry the date d
CountDate(file, d) == Cardinality({i \in 1..Len(file.lines) : DateAt(file, i) = d})

NoDuplicateDate(file) == \A i, j \in 1..Len(file.lines) : DateAt(file, i) = DateAt(file, j) => i = j

IsPrefix(s, t) == Len(s) <= Len(t) /\ \A i \in 1..Len(s) : s[i] = t[i]

Upserted == last_row # NoRow

\* the date of the row upserted last
LastDate == last_row.vals["date"]

\* the columns the last upsert added to the header
AddedCols == Range(history.header) \ Range(ReadHeader(prev_history))

\* the first line of the previous file that carries the date d (0: none)
FirstMatch(file, d) == IF CountDate(file, d) = 0 THEN 0 ELSE CHOOSE i \in 1..Len(file.lines) : DateAt(file, i) = d /\ \A j \in 1..(i - 1) : DateAt(file, j) # d

\* the line the new row becomes under the header of the written file
NewLine == [i \in 1..Len(history.header) |-> Get(last_row.vals, history.header[i], "")]

\* the lines of a file whose date is not d, in file order
RECURSIVE OtherLines(_, _, _)
OtherLines(file, d, i) ==
  IF i > Len(file.lines) THEN <<>>
  ELSE IF DateAt(file, i) = d THEN OtherLines(file, d, i + 1)
  ELSE <<ReadRows(file)[i]>> \o OtherLines(file, d, i + 1)

\* ------------------------------------------- properties of the upserter
\* C1: starting from an absent or empty history file, after any sequence of
\* upserts the file holds at most one line for each date.
C1_OneRowPerDate == clean => NoDuplicateDate(history)

C1_Witness == clean /\ Upserted /\ Len(history.lines) = 2 /\ CountDate(prev_history, LastDate) = 1 /\ AddedCols # {}

\* C2: upserting the same row a second time writes the same file (same
\* header, same lines in the same order) as upserting it once.
C2_UpsertIdempotent == Upserted => Upsert(history, last_row) = history

\* the same row was upserted again: the last upsert found its own output
C2_Witness == Upserted /\ prev_history = history /\ Len(history.lines) = 2 /\ Len(history.header) = 3 /\ FirstMatch(history, LastDate) = 1

\* C3: the header before an upsert is a prefix of the header after it, and
\* the columns after that prefix are the new row's unseen keys in the row's
\* key order.
C3_HeaderPrefix ==
  Upserted =>
    /\ IsPrefix(ReadHeader(prev_history), history.header)
    /\ SubSeq(history.header, Len(ReadHeader(prev_history)) + 1, Len(history.header))
         = SelectSeq(last_row.keys, LAMBDA k : k \notin Range(ReadHeader(prev_history)))

C3_Witness == Upserted /\ Len(ReadHeader(prev_history)) = 2 /\ Len(history.header) = 3 /\ prev_history.header # last_row.keys /\ Len(last_row.keys) = 3 /\ last_row.keys[2] = "foo"

\* C4: when a line of the existing file carries the new row's date, the new
\* row's values are written at the position of the first such line and the
\* number of lines does not grow; otherwise the new row is the last line and
\* the number of lines grows by exactly one.
C4_ReplaceInPlaceOrAppend ==
  Upserted =>
    LET p == FirstMatch(prev_history, LastDate)
    IN IF p # 0
       THEN /\ history.lines[p] = NewLine
            /\ Len(history.lines) <= Len(prev_history.lines)
       ELSE /\ Len(history.lines) = Len(prev_history.lines) + 1
            /\ history.lines[Len(history.lines)] = NewLine

C4_Witness == Upserted /\ FirstMatch(prev_history, LastDate) = 1 /\ Len(prev_history.lines) = 2 /\ Len(history.lines) = 2 /\ prev_history.lines[1] # history.lines[1] /\ DateAt(prev_history, 2) # LastDate

\* C5: an upsert for date D keeps every existing line whose date is not D,
\* in the same order, with the same value in every column the file already
\* had and the empty string in every column this upsert added.
C5_OtherRowsKept ==
  Upserted =>
    LET before == OtherLines(prev_history, LastDate, 1)
        after == OtherLines(history, LastDate, 1)
    IN /\ Len(after) = Len(before)
       /\ \A k \in 1..Len(before) :
            /\ \A h \in Range(ReadHeader(prev_history)) : after[k][h] = before[k][h]
            /\ \A h \in AddedCols : after[k][h] = ""

\* Scenario B: the file holds 2026-01-01 and 2026-01-02, the row for
\* 2026-01-01 brings the unseen column foo
C5_Witness ==
  /\ Upserted
  /\ Len(prev_history.lines) = 2
  /\ DateAt(prev_history, 1) = "2026-01-01"
  /\ DateAt(prev_history, 2) = "2026-01-02"
  /\ "foo" \notin Range(prev_history.header)
  /\ LastDate = "2026-01-01"
  /\ Get(last_row.vals, "foo", "") = "1"
  /\ Len(history.lines) = 2
  /\ ReadRows(history)[1]["foo"] = "1"
  /\ ReadRows(history)[2]["foo"] = ""
  /\ ReadRows(history)[2]["year"] = "1"

\* C6 as stated: whatever duplicate dates the existing file holds, the file
\* the upsert writes has no duplicate date.
C6_Original == Upserted => NoDuplicateDate(history)

\* C6 as amended: the written file holds exactly one line with the new row's
\* date, at the position of the first existing line with that date, the
\* other lines with that date are dropped, and every other date keeps the
\* number of lines it had.
C6_SelfHealUpsertedDate ==
  Upserted =>
    /\ CountDate(history, LastDate) = 1
    /\ FirstMatch(prev_history, LastDate) # 0 => FirstMatch(history, LastDate) = FirstMatch(prev_history, LastDate)
    /\ \A d \in Dates \ {LastDate} : CountDate(history, d) = CountDate(prev_history, d)

C6_Witness == Upserted /\ CountDate(prev_history, LastDate) >= 2 /\ CountDate(history, LastDate) = 1 /\ Len(history.lines) < Len(prev_history.lines)

\* --------------------------------------------- properties of the runner
LoopOver == pc \in {"summary", "upsert", "return", "done", "crashed"}

\* step k was required and its result is failed
RequiredFailed(k) == steps[k].required /\ Get(run_results[k], "status", "") = "failed"

\* C7 as stated: the loop stops exactly when a required step ends failed;
\* then no later step is started or recorded; otherwise every step of the
\* list is attempted and recorded in list order.
C7_Original ==
  LoopOver =>
    /\ Len(events) = Len(run_results)
    /\ \A k \in 1..Len(run_results) : run_results[k].name = steps[k].name
    /\ \A k \in 1..Len(run_results) : RequiredFailed(k) => k = Len(run_results)
    /\ Len(run_results) < Len(steps) => Len(run_results) >= 1 /\ RequiredFailed(Len(run_results))

\* C8 as stated: the process exit status is non-zero if and only if some
\* required step ended with status failed.
C8_Original ==
  exit_status # -1 =>
    ((exit_status # 0) <=> \E k \in 1..Len(run_results) : RequiredFailed(k))

\* step k is no longer inside run_step
Handled(k) == k < Len(events) \/ (k = Len(events) /\ pc \notin {"proc", "except"})

\* C9 as stated: every step run_step was called for gets a result: skipped
\* iff its prerequisite is declared and absent, else ok iff the process ended
\* with code 0 and nothing raised, else failed; no exception leaves run_step.
C9_Original ==
  \A k \in 1..Len(events) :
    Handled(k) =>
      /\ k <= Len(run_results)
      /\ run_results[k].status \in {"skipped", "ok", "failed"}
      /\ (run_results[k].status = "skipped") <=> (steps[k].run_if_exists /\ events[k].absent)
      /\ (run_results[k].status = "ok") <=> (events[k].rc = 0 /\ ~events[k].raised)

\* C10 as stated: every run that ends has written a summary with one entry
\* per attempted step, in execution order, failed steps marked as failed.
C10_Original ==
  exit_status # -1 =>
    /\ Len(summary_json) = 1
    /\ Len(summary_md) = 1
    /\ Len(summary_json[1].steps) = Len(events)
    /\ Len(summary_md[1]) = Len(events)
    /\ \A k \in 1..Len(events) :
         /\ summary_json[1].steps[k].name = steps[k].name
         /\ summary_md[1][k].name = steps[k].name
         /\ (events[k].raised \/ events[k].rc = 1) =>
              summary_json[1].steps[k].status = "failed" /\ summary_md[1][k].mark = "cross_mark"

\* What remains of C7, C8, C9 and C10 in the runs where no exception leaves
\* run_step: there the four statements hold as written.
RunStepReturned == pc # "crashed"

C7_WhenRunStepReturns == RunStepReturned => C7_Original

C8_WhenRunStepReturns == RunStepReturned => C8_Original

C9_WhenRunStepReturns == RunStepReturned => C9_Original

C10_WhenRunStepReturns == RunStepReturned => C10_Original

\* C11 as stated: every invocation that ends has attempted the history upsert
\* exactly once, after the loop has ended and the summary was written; the
\* history file is untouched while steps run; whether the upsert raised or
\* not, the exit status is the one the steps decide.
C11_Original ==
  /\ upsert_attempts <= 1
  /\ exit_status # -1 => upsert_attempts = 1
  /\ upsert_attempts = 1 => pc \in {"return", "done"} /\ Len(summary_json) = 1 /\ Len(summary_md) = 1
  /\ pc \in {"loop", "proc", "except", "summary", "upsert"} => history = prev_history /\ ~Upserted
  /\ pc = "done" => exit_status = IF \E k \in 1..Len(run_results) : RequiredFailed(k) THEN 1 ELSE 0

C11_WhenRunStepReturns == RunStepReturned => C11_Original

\* ------------------------------------------ properties of shows_metrics
\* shows_metrics.py has run
Written == shows_out # <<>>

\* the rows read from the two files, AEG first; main's de-duped rows, its
\* sorted rows of the year and its summary
InputRows == shows_out[1].all_rows
RowsOut == shows_out[1].rows
FilteredOut == shows_out[1].filtered
SummaryOut == shows_out[1].summary

\* a start text that denotes a time
Parseable(start) == start.form \in {"date", "slash", "naive", "offset", "z"}

\* the instant a start text denotes, in hours since 2026-01-01T00:00 UTC: a
\* text with an offset or a Z is that many hours from UTC, a text without is
\* Denver civil time, seven hours behind UTC
Instant(start) ==
  IF start.form \in {"offset", "z"} THEN HourNo(start.y, start.mo, start.d, start.h) - start.off
  ELSE HourNo(start.y, start.mo, start.d, IF start.form = "naive" THEN start.h ELSE 0) + 7

\* the Denver calendar year of an instant: 2026 begins in Denver at 07:00 UTC
LocalYear(start) == IF Instant(start) < 7 THEN 2025 ELSE 2026

\* the positions of the de-duped rows that have a start in the target year
InYearRows == {k \in 1..Len(RowsOut) : Parseable(StartOf(RowsOut[k])) /\ LocalYear(StartOf(RowsOut[k])) = year_arg}

\* the key of every input row, and the positions of the input rows that are
\* the first with their key
InputKeys == [i \in 1..Len(InputRows) |-> DedupeKey(InputRows[i])]
FirstPositions == LET keys == InputKeys IN SelectSeq([i \in 1..Len(keys) |-> i], LAMBDA i : \A j \in 1..(i - 1) : keys[j] # keys[i])

\* C12: de-duplicating the de-duplicated rows returns the same rows in the
\* same order
C12_DedupeIdempotent == Written => Dedupe(RowsOut) = RowsOut

C12_Witness == Written /\ Len(RowsOut) >= 2 /\ Len(RowsOut) < Len(InputRows)

\* C13: the de-duped rows are the input rows that are the first of their
\* key, unchanged and in input order; an AEG row that shares its key with a
\* Ticketmaster row is the one kept
C13_FirstOccurrenceWins ==
  Written =>
    LET keys == InputKeys
        first == FirstPositions
    IN /\ RowsOut = [k \in 1..Len(first) |-> InputRows[first[k]]]
       /\ \A i, j \in 1..Len(InputRows) :
            (InputRows[i].source = "aeg" /\ InputRows[j].source = "ticketmaster" /\ keys[i] = keys[j])
            => \A k \in 1..Len(RowsOut) : RowsOut[k] # InputRows[j]

\* an AEG row kept over a Ticketmaster row of the same key that starts earlier,
\* and a second row kept after it
C13_Witness ==
  /\ Written
  /\ Len(RowsOut) = 2
  /\ \E i, j \in 1..Len(InputRows) :
       /\ InputRows[i].source = "aeg"
       /\ InputRows[j].source = "ticketmaster"
       /\ DedupeKey(InputRows[i]) = DedupeKey(InputRows[j])
       /\ Parseable(StartOf(InputRows[i])) /\ Parseable(StartOf(InputRows[j]))
       /\ Instant(StartOf(InputRows[j])) < Instant(StartOf(InputRows[i]))
       /\ RowsOut[1] = InputRows[i]

\* the event_url of a row as _read_csv returns it
UrlOf(row) == Get(row, "event_url", <<>>)

\* C14: of the input rows that carry one non-empty event_url, exactly one is
\* kept, whatever their other fields
C14_SameUrlOneKept ==
  Written =>
    \A i \in 1..Len(InputRows) :
      UrlOf(InputRows[i]) # <<>> => Cardinality({k \in 1..Len(RowsOut) : UrlOf(RowsOut[k]) = UrlOf(InputRows[i])}) = 1

\* two rows of different sources with one url and different venue and start
C14_Witness ==
  /\ Written
  /\ \E i, j \in 1..Len(InputRows) :
       /\ UrlOf(InputRows[i]) # <<>>
       /\ UrlOf(InputRows[i]) = UrlOf(InputRows[j])
       /\ InputRows[i].source # InputRows[j].source
       /\ InputRows[i].venue_name # InputRows[j].venue_name
       /\ StartOf(InputRows[i]) # StartOf(InputRows[j])

\* C15: the count is the number of de-duped rows with a parseable start whose
\* Denver calendar year is the target year, whenever in the year they start
C15_CountIsYearRows == Written => SummaryOut.denver_upcoming_show_count = Cardinality(InYearRows)

\* some rows counted and a row of the UTC year 2026 not counted
C15_Witness ==
  /\ Written
  /\ SummaryOut.denver_upcoming_show_count = 2
  /\ \E k \in 1..Len(RowsOut) : StartOf(RowsOut[k]) = StartText("z", 2026, 1, 1, 3, 0)

\* the position of the row next_event is to come from: the least instant of
\* the rows of the year, the first in de-dupe order among equals
NextPos ==
  CHOOSE k \in InYearRows :
    \A m \in InYearRows :
      \/ Instant(StartOf(RowsOut[k])) < Instant(StartOf(RowsOut[m]))
      \/ (Instant(StartOf(RowsOut[k])) = Instant(StartOf(RowsOut[m])) /\ k <= m)

\* the Denver calendar date of the starts that are not written in Denver time
LocalDate(start) ==
  IF start = StartText("z", 2026, 1, 1, 3, 0) THEN <<2025, 12, 31>>
  ELSE IF start = StartText("z", 2026, 1, 9, 3, 0) THEN <<2026, 1, 8>>
  ELSE <<start.y, start.mo, start.d>>

\* C16: the next-event fields are those of the row of the year with the least
\* instant, the first in de-dupe order among rows of that instant, and they
\* are empty when no row is of the year
C16_NextEvent ==
  Written =>
    IF InYearRows = {}
    THEN /\ SummaryOut.next_show_date = <<>>
         /\ SummaryOut.next_show_datetime = <<>>
         /\ SummaryOut.next_show_title = <<>>
         /\ SummaryOut.next_show_venue = <<>>
         /\ SummaryOut.next_show_url = <<>>
    ELSE /\ FilteredOut[1].row = RowsOut[NextPos]
         /\ SummaryOut.next_show_date = LocalDate(StartOf(RowsOut[NextPos]))
         /\ SummaryOut.next_show_title = RowsOut[NextPos].title
         /\ SummaryOut.next_show_venue = RowsOut[NextPos].venue_name
         /\ SummaryOut.next_show_url = RowsOut[NextPos].event_url

\* two rows of the year at one instant, behind a later row in de-dupe order
C16_Witness ==
  /\ Written
  /\ Len(RowsOut) = 3
  /\ InYearRows = {1, 2, 3}
  /\ Instant(StartOf(RowsOut[2])) = Instant(StartOf(RowsOut[3]))
  /\ Instant(StartOf(RowsOut[2])) < Instant(StartOf(RowsOut[1]))
  /\ FilteredOut[1].row = RowsOut[2]

\* C17: sources_present lists the source tags of the whole input, de-duped
\* away or not
C17_Original == Written => SummaryOut.sources_present = SourcesPresent_AllInput(InputRows, RowsOut)

\* C18: the venue count is the number of distinct non-empty venue names of the
\* rows of the year
C18_VenuesOfYearRows ==
  Written => SummaryOut.unique_venues_count = Cardinality({RowsOut[k].venue_name : k \in InYearRows} \ {<<>>})

\* two rows of the year share a venue and a row outside the year has one
C18_Witness ==
  /\ Written
  /\ SummaryOut.unique_venues_count = 1
  /\ InYearRows = {1, 2}
  /\ RowsOut[1].venue_name = RowsOut[2].venue_name
  /\ Len(RowsOut) = 3
  /\ RowsOut[3].venue_name # <<>>

\* C19: a row is of the year iff its start, converted to Denver time when it
\* has an offset or a Z and taken as Denver time when it has none, is in that
\* calendar year; 2026-01-01T03:00:00Z is of 2025 and 2026-01-09T03:00:00Z
\* has the local date 2026-01-08
C19_DenverLocalYear ==
  Written =>
    /\ \A k \in 1..Len(RowsOut) :
         Parseable(StartOf(RowsOut[k])) =>
           /\ InYear(RowsOut[k], 2025) <=> LocalYear(StartOf(RowsOut[k])) = 2025
           /\ InYear(RowsOut[k], 2026) <=> LocalYear(StartOf(RowsOut[k])) = 2026
           /\ (\E e \in 1..Len(FilteredOut) : FilteredOut[e].row = RowsOut[k]) <=> LocalYear(StartOf(RowsOut[k])) = year_arg
    /\ \A e \in 1..Len(FilteredOut) :
         /\ IsoDate(FilteredOut[e].dt_denver) = LocalDate(StartOf(FilteredOut[e].row))
         /\ FilteredOut[e].ts = Instant(StartOf(FilteredOut[e].row))

\* the two starts of the statement and a start without offset in one run
C19_Witness ==
  /\ Written
  /\ Len(FilteredOut) = 2
  /\ \E k \in 1..Len(RowsOut) : StartOf(RowsOut[k]) = StartText("z", 2026, 1, 1, 3, 0) /\ InYear(RowsOut[k], 2025)
  /\ \E e \in 1..Len(FilteredOut) : StartOf(FilteredOut[e].row) = StartText("z", 2026, 1, 9, 3, 0) /\ IsoDate(FilteredOut[e].dt_denver) = <<2026, 1, 8>>
  /\ \E e \in 1..Len(FilteredOut) : StartOf(FilteredOut[e].row).form = "naive"

\* C20: a row with an empty or unparseable start is in no entry of the rows of
\* the year, no entry has an instant its start does not denote, and every
\* other row of the year has its entry, once
C20_UnparseableDropped ==
  Written =>
    /\ \A e \in 1..Len(FilteredOut) : Parseable(StartOf(FilteredOut[e].row))
    /\ ParseDt(EmptyStart) = NoDt
    /\ ParseDt(StartText("text", 0, 0, 0, 0, 0)) = NoDt
    /\ \A k \in InYearRows : Cardinality({e \in 1..Len(FilteredOut) : FilteredOut[e].row = RowsOut[k]}) = 1
    /\ Len(FilteredOut) = Cardinality(InYearRows)
    /\ SummaryOut.unique_venues_count <= Cardinality(InYearRows)

\* an empty start and a start that is no date, each before a row of the year
C20_Witness ==
  /\ Written
  /\ Len(RowsOut) = 3
  /\ StartOf(RowsOut[1]).form = "empty"
  /\ StartOf(RowsOut[2]).form = "text"
  /\ InYearRows = {3}
  /\ FilteredOut[1].row = RowsOut[3]

\* the file is absent or holds no row
NoRecords(file) == ~file.exists \/ file.rows = <<>>

\* C21: an absent or empty event file counts as zero records and the summary
\* is still written; with no record at all the summary has zero counts, empty
\* next-event fields and no source
C21_MissingInputIsZero ==
  Written =>
    /\ NoRecords(in_aeg) => SummaryOut.aeg_rows = 0
    /\ NoRecords(in_tm) => SummaryOut.ticketmaster_rows = 0
    /\ (NoRecords(in_aeg) /\ NoRecords(in_tm)) =>
         /\ SummaryOut.combined_deduped_rows = 0
         /\ SummaryOut.denver_upcoming_show_count = 0
         /\ SummaryOut.unique_venues_count = 0
         /\ SummaryOut.next_show_date = <<>>
         /\ SummaryOut.next_show_datetime = <<>>
         /\ SummaryOut.next_show_title = <<>>
         /\ SummaryOut.next_show_venue = <<>>
         /\ SummaryOut.next_show_url = <<>>
         /\ SummaryOut.sources_present = <<>>

\* one file absent, the other present without rows
C21_Witness ==
  /\ Written
  /\ ~in_aeg.exists
  /\ in_tm.exists /\ in_tm.rows = <<>>
  /\ SummaryOut.denver_upcoming_show_count = 0

\* the instant of an aware datetime, in hours since 2026-01-01T00:00 UTC
InstantOfDt(dt) == HourNo(dt.y, dt.mo, dt.d, dt.h) - dt.off

\* C23: for a start with an offset or a Z, the datetime converted to Denver
\* time denotes the same instant as the parsed one, and the timestamp used for
\* ordering is that instant
C23_ZoneRoundTrip ==
  Written =>
    \A i \in 1..Len(InputRows) :
      StartOf(InputRows[i]).form \in {"offset", "z"} =>
        LET dt_raw == ParseDt(StartOf(InputRows[i]))
            dt_denver == AsAwareDenver(dt_raw)
        IN /\ dt_denver.off = DenverOffset
           /\ InstantOfDt(dt_denver) = InstantOfDt(dt_raw)
           /\ UtcTs(dt_raw) = InstantOfDt(dt_raw)
           /\ UtcTs(dt_denver) = UtcTs(dt_raw)
           /\ UtcTs(dt_raw) = Instant(StartOf(InputRows[i]))

\* a Z start that falls on the previous day and year in Denver, and a start
\* with the offset -07:00
C23_Witness ==
  /\ Written
  /\ \E i \in 1..Len(InputRows) : StartOf(InputRows[i]) = StartText("z", 2026, 1, 1, 3, 0) /\ AsAwareDenver(ParseDt(StartOf(InputRows[i]))).y = 2025
  /\ \E i \in 1..Len(InputRows) : StartOf(InputRows[i]).form = "offset"

\* the words of a text, lowercased: its maximal runs of non-blank characters
RECURSIVE WordsFrom(_, _, _)
WordsFrom(s, word, words) ==
  IF s = <<>> THEN (IF word = <<>> THEN words ELSE Append(words, word))
  ELSE IF Head(s) = " " THEN WordsFrom(Tail(s), <<>>, IF word = <<>> THEN words ELSE Append(words, word))
  ELSE WordsFrom(Tail(s), Append(word, IF Head(s) = "A" THEN "a" ELSE IF Head(s) = "V" THEN "v" ELSE Head(s)), words)

Words(s) == WordsFrom(s, <<>>, <<>>)

\* two rows have the same normalised title, the same normalised venue name
\* and the same start text
SameSignature(r1, r2) ==
  /\ Words(r1.title) = Words(r2.title)
  /\ Words(r1.venue_name) = Words(r2.venue_name)
  /\ StartOf(r1) = StartOf(r2)

\* the text holds the character |
HasBar(s) == \E i \in 1..Len(s) : s[i] = "|"

\* C26: two rows without event_url get one key, and so only the first is
\* kept, iff their normalised titles, their normalised venue names and their
\* start texts are equal
C26_Original ==
  Written => (Len(RowsOut) = 1 <=> SameSignature(InputRows[1], InputRows[2]))

\* the same, for rows whose titles and venue names hold no |
C26_WithoutSeparator ==
  (Written /\ \A i \in 1..2 : ~HasBar(InputRows[i].title) /\ ~HasBar(InputRows[i].venue_name))
  => (Len(RowsOut) = 1 <=> SameSignature(InputRows[1], InputRows[2]))

\* a row without url, title and venue name
AllEmpty(r) == UrlOf(r) = <<>> /\ r.title = <<>> /\ r.venue_name = <<>>

\* C27, as stated: two rows without url, title and venue name always collide
\* and only the first is kept
C27_Original ==
  (Written /\ AllEmpty(InputRows[1]) /\ AllEmpty(InputRows[2])) => RowsOut = <<InputRows[1]>>

\* C27: two rows without url, title and venue name collide iff their start
\* texts are equal; then only the first is kept, otherwise both are
C27_AllEmptyCollideOnStart ==
  (Written /\ AllEmpty(InputRows[1]) /\ AllEmpty(InputRows[2])) =>
    IF StartOf(InputRows[1]) = StartOf(InputRows[2])
    THEN RowsOut = <<InputRows[1]>>
    ELSE RowsOut = <<InputRows[1], InputRows[2]>>

\* two rows with nothing but an event_id and a source
C27_Witness ==
  /\ Written
  /\ AllEmpty(InputRows[1]) /\ AllEmpty(InputRows[2])
  /\ StartOf(InputRows[1]) = EmptyStart /\ StartOf(InputRows[2]) = EmptyStart
  /\ RowsOut = <<InputRows[1]>>
  /\ SummaryOut.combined_deduped_rows = 1

\* ------------------------------------ properties of append_history_row
\* append_history_row has returned
RowDone == pc = "row_done"

\* the file first_existing picks among the candidate paths
PickedFile(paths) == IF \E i \in 1..Len(paths) : paths[i].exists THEN paths[CHOOSE i \in 1..Len(paths) : paths[i].exists /\ \A j \in 1..(i - 1) : ~paths[j].exists] ELSE NoSummary

\* the summary of the domain is missing, unreadable or has no row
Unusable(paths) == ~PickedFile(paths).exists \/ ~PickedFile(paths).readable \/ PickedFile(paths).rows = <<>>

\* the first row of the domain's summary, or no column at all
SummaryRead(paths) == IF Unusable(paths) THEN <<>> ELSE PickedFile(paths).rows[1]

\* the history fields of each domain
FitnessFields == {"classes_attended_ytd", "rx_rate"}
ReadingFields == {"nonfiction_read_ytd", "fiction_read_ytd"}
RunningFields == {"running_miles_ytd", "running_goal_miles", "running_progress_pct"}

\* the line of the written history file for today, as a dict
TodayLine == ReadRows(history)[FirstMatch(history, today)]

\* the value a field gets when only the summary of one domain is on disk
AloneValue(domain, k) == HistoryRow(today, ReadSummaries([NoMetrics EXCEPT ![domain] = metrics[domain]])).vals[k]

\* when append_history_row returns and a domain's summary is missing, empty
\* or unreadable, the history file has exactly one line for today, the fields of that domain are
\* empty in it, and the fields of the other domains are what their own
\* summaries give
C22_WhenCallReturns ==
  RowDone =>
    /\ CountDate(history, today) = 1
    /\ Unusable(metrics.fitness) => \A k \in FitnessFields : TodayLine[k] = ""
    /\ Unusable(metrics.reading) => \A k \in ReadingFields : TodayLine[k] = ""
    /\ Unusable(metrics.running) => \A k \in RunningFields : TodayLine[k] = ""
    /\ \A k \in FitnessFields : TodayLine[k] = AloneValue("fitness", k)
    /\ \A k \in ReadingFields : TodayLine[k] = AloneValue("reading", k)
    /\ \A k \in RunningFields : TodayLine[k] = AloneValue("running", k)
    /\ TodayLine["rx_rate"] = Get(SummaryRead(metrics.fitness), "rx_rate", "")

\* C22, as stated: with a domain summary missing, empty or unreadable the
\* call does not raise and the above holds
C22_Original == pc # "row_raised" /\ C22_WhenCallReturns

\* the value an ordered chain resolves to
Resolved(summary, primary, fallback) ==
  IF primary \in DOMAIN summary /\ summary[primary] # "" THEN summary[primary]
  ELSE IF fallback \in DOMAIN summary /\ summary[fallback] # "" THEN summary[fallback]
  ELSE ""

\* C28: an aliased history field is the primary column when it is present and
\* not empty, else the fallback column when it is present and not empty, else
\* the empty string
C28_AliasChain ==
  RowDone =>
    /\ TodayLine["classes_attended_ytd"] = Resolved(SummaryRead(metrics.fitness), "classes_attended_2026", "classes_attended_ytd")
    /\ TodayLine["nonfiction_read_ytd"] = Resolved(SummaryRead(metrics.reading), "nonfiction_read_ytd", "nonfiction_books_read")
    /\ TodayLine["fiction_read_ytd"] = Resolved(SummaryRead(metrics.reading), "fiction_read_ytd", "fiction_books_read")
    /\ TodayLine["running_miles_ytd"] = Resolved(SummaryRead(metrics.running), "running_miles_ytd", "miles_ytd")
    /\ TodayLine["running_goal_miles"] = Resolved(SummaryRead(metrics.running), "running_goal_miles", "miles_goal")

\* a primary "0" kept over a fallback, an empty primary replaced by the
\* fallback, and a chain with neither column
C28_Witness ==
  /\ RowDone
  /\ Get(SummaryRead(metrics.fitness), "classes_attended_2026", "") = "0"
  /\ Get(SummaryRead(metrics.fitness), "classes_attended_ytd", "") = "5"
  /\ TodayLine["classes_attended_ytd"] = "0"
  /\ Get(SummaryRead(metrics.reading), "fiction_read_ytd", Absent) = ""
  /\ TodayLine["fiction_read_ytd"] = "4"
  /\ TodayLine["running_miles_ytd"] = ""

\* C29: when the summary running_metrics.py wrote, or the one
\* hardcover_metrics.py wrote, is the one append_history_row reads, the
\* history line has its totals
C29_Original ==
  RowDone =>
    /\ (~metrics.running[1].exists /\ metrics.running[2] = SummaryFile(TRUE, TRUE, <<RunningSummary("12.5")>>))
       => (TodayLine["running_miles_ytd"] # "" /\ TodayLine["running_progress_pct"] # "")
    /\ metrics.reading[1] = SummaryFile(TRUE, TRUE, <<ReadingSummary("2", "1")>>)
       => (TodayLine["fiction_read_ytd"] # "" /\ TodayLine["nonfiction_read_ytd"] # "")

\* what does reach the history line from the two written summaries: the
\* running goal only
C29_OnlyGoalReaches ==
  RowDone =>
    /\ (~metrics.running[1].exists /\ metrics.running[2] = SummaryFile(TRUE, TRUE, <<RunningSummary("12.5")>>))
       => (TodayLine["running_miles_ytd"] = "" /\ TodayLine["running_progress_pct"] = "" /\ TodayLine["running_goal_miles"] = "350.0")
    /\ metrics.reading[1] = SummaryFile(TRUE, TRUE, <<ReadingSummary("2", "1")>>)
       => (TodayLine["fiction_read_ytd"] = "" /\ TodayLine["nonfiction_read_ytd"] = "")

\* ---------------------------------------- further properties of the runner
\* the steps whose process has been started and has not ended
Running == {k \in 1..Len(events) : ~events[k].absent /\ ~events[k].raised /\ events[k].rc = -1}

\* step k was executed: its result is recorded with status ok or failed
Executed(k) == k <= Len(run_results) /\ Get(run_results[k], "status", "") \in {"ok", "failed"}

\* C24: every executed step has a log file of its own name that holds what
\* that step wrote, from the moment its result is recorded to the end of the
\* run
C24_Original ==
  \A k \in 1..Len(run_results) :
    Executed(k) =>
      /\ steps[k].name \in DOMAIN logs
      /\ logs[steps[k].name].step = k
      /\ run_results[k].status = "ok" => logs[steps[k].name].body = "output"

\* the same for step lists without two steps of one name
C24_WhenNamesDiffer == IsInjective([k \in 1..Len(steps) |-> steps[k].name]) => C24_Original

\* C25: at most one step is running, it is the step the loop is at, the steps
\* handled so far are the first steps of the list in order, and each has its
\* result recorded before the next is touched
C25_OneStepAtATime ==
  /\ Cardinality(Running) <= 1
  /\ \A k \in Running : k = idx /\ pc = "proc"
  /\ Len(events) \in {Len(run_results), Len(run_results) + 1}
  /\ Len(events) = Len(run_results) + 1 => pc \in {"proc", "except", "crashed"}
  /\ \A k \in 1..Len(run_results) :
       /\ run_results[k].name = steps[k].name
       /\ Get(run_results[k], "status", "") \in {"skipped", "ok", "failed"}
       /\ k \notin Running

\* the second step running after the first was recorded as failed
C25_Witness ==
  /\ pc = "proc"
  /\ idx = 2
  /\ Running = {2}
  /\ Len(run_results) = 1
  /\ run_results[1].status = "failed"

\* the step list is one main builds: no step is required
NoneRequired == \A k \in 1..Len(steps) : ~steps[k].required

\* C30: with no step required the loop never ends early, every step is
\* attempted and the exit status is 0, whatever the steps do
C30_Original ==
  NoneRequired =>
    /\ ~failed_required
    /\ exit_status \in {-1, 0}
    /\ LoopOver => Len(run_results) = Len(steps)
    /\ pc \in {"summary", "upsert", "return", "done"} \/ exit_status = -1

C30_WhenRunStepReturns == RunStepReturned => C30_Original

====
